---- MODULE Spec2Model ----
(***************************************************************************)
(* Certificate mailer: the feedback-gated delivery pipeline of             *)
(* backend/app/api/send.py (send_certificates) and                         *)
(* backend/app/api/feedback.py (submit_feedback) over the MongoDB          *)
(* collections users, events, participants and feedback.                   *)
(*                                                                         *)
(* Each handler is a small process: one action per database operation or   *)
(* blocking call, in program order, with a program counter.  In Spec the   *)
(* handlers run one after the other (a request starts only when no other   *)
(* request is in flight).                                                  *)
(* In SpecConc two requests overlap: the steps of one interleave with the  *)
(* steps of the other, as the awaits of the asynchronous handlers allow.   *)
(* SpecCalls follows single calls of the service functions (compositor,    *)
(* mailer, font resolver, event update, template measurement), SpecRoster  *)
(* the requests that build a roster, SpecDelete the serial requests over   *)
(* an event whose participants and documents are deleted, and SpecLegacy   *)
(* the in-memory session flow of backend/app/api/certificates.py.          *)
(***************************************************************************)
EXTENDS Integers, Sequences, FiniteSets, TLC

\* ---------------------------------------------------------------- bounds
NumParticipants == 2
MaxClock == 3
NumProcs == 2
MaxDim == 3
MaxWords == 2
MaxFiles == 2
MaxRows == 2
MaxLinks == 3

\* ------------------------------------------------------------- constants
NoTime == -1
NoToken == 0
None == "None"

PIds == 1..NumParticipants
Procs == 1..NumProcs
Times == 0..MaxClock
\* every token a run can issue within MaxClock requests
Tokens == 1..(NumParticipants * MaxClock)

\* answers of a FeedbackSubmission: a list of answers, possibly empty
\* the organizer's event, and an id that matches no event of theirs
EventId == "E1"
EventIds == {"E1", "E0"}

AnswerLists == {<< >>, <<"good">>}

\* exceptions the blocking calls inside the try blocks can raise
Exceptions == {"SMTPException", "OSError", "InvalidToken"}

\* str(e): the text stored as error_message.  cryptography raises
\* InvalidToken without arguments, so its text is the empty string.
Str(e) ==
  CASE e = "SMTPException" -> "(535, b'Username and Password not accepted')"
    [] e = "OSError"       -> "cannot identify image file"
    [] e = "InvalidToken"  -> ""

\* the rows of the roster, in the order they are added: display names and
\* email addresses as lists of characters
RosterName(p) ==
  CASE p = 1 -> <<"A", "/", "b">>
    [] p = 2 -> <<"C", "\\", "d">>
    [] OTHER -> <<"E", "f">>

RosterEmail(p) ==
  CASE p = 1 -> <<"A", "@", "x">>
    [] p = 2 -> <<"c", "@", "x">>
    [] OTHER -> <<"e", "@", "x">>

\* str.lower()
LowerChar(c) ==
  CASE c = "A" -> "a" [] c = "C" -> "c" [] c = "E" -> "e" [] OTHER -> c
Lower(str) == [k \in DOMAIN str |-> LowerChar(str[k])]

\* name.replace("/", "_").replace("\\", "_")
SafeName(name) ==
  [k \in DOMAIN name |-> IF name[k] \in {"/", "\\"} THEN "_" ELSE name[k]]

\* the artifacts of one participant under the event's output directory
PngPath(name) == <<"png", SafeName(name)>>
PdfPath(name) == <<"pdf", SafeName(name)>>

\* the statuses a dispatch run selects
ResendStatuses == {"pending", "failed", "feedback_sent", "certificate_sent"}
\* SelectedStatuses with pendingOnly retrying the failed participants as well
SelectedStatusesRetry(send_all) ==
  IF send_all THEN ResendStatuses ELSE {"pending", "failed"}

SelectedStatuses(send_all) == IF send_all THEN ResendStatuses ELSE {"pending"}

RECURSIVE SortedSeq(_)
SortedSeq(S) ==
  IF S = {} THEN << >>
  ELSE LET m == CHOOSE x \in S : \A y \in S : x <= y
       IN <<m>> \o SortedSeq(S \ {m})

\* ------------------------------------------------------------------ state
VARIABLES
  user,          \* the organizer's users document
  event,         \* the events document
  participants,  \* participants collection: id -> document
  feedback,      \* feedback collection: a set of documents
  files,         \* paths written under OUTPUT_DIR / event_id
  now,           \* the value datetime.utcnow() returns
  nextToken,     \* the next value secrets.token_urlsafe returns
  lastIssued,    \* participant -> the token most recently issued to it
  proc,          \* the requests in flight, and their last response
  call,          \* a call of a service function, or a request of the
                 \* session flow: its arguments, its position, its result
  sessions,        \* certificates.py sessions: the ids of the live sessions
  feedback_tokens  \* certificates.py feedback_tokens: token -> entry

vars == <<user, event, participants, feedback, files, now,
          nextToken, lastIssued, proc, call, sessions, feedback_tokens>>

\* no service function is being followed
NoCall == [fn |-> "none"]

NoResults == [total |-> 0, successful |-> 0, failed |-> 0, details |-> << >>]
NoFeedback == [participant_id |-> 0, token |-> NoToken, answers |-> << >>,
               submitted_at |-> NoTime]

IdleProc ==
  [op |-> "none", pc |-> "idle", response |-> "none", event_id |-> EventId,
   send_all |-> FALSE, feedback_enabled |-> FALSE,
   queue |-> << >>, selected |-> {}, participant |-> 0, token |-> NoToken,
   error |-> None, results |-> NoResults,
   answers |-> << >>, fb |-> NoFeedback,
   pre_status |-> [p \in PIds |-> "pending"], pre_files |-> {},
   mailed |-> {}, rendered |-> {}, repeat_of |-> {}]

Init ==
  /\ user = [email_settings |-> None]
  /\ event = [template_path |-> None,
              feedback_enabled |-> TRUE, status |-> "draft", updated_at |-> 0]
  /\ participants = << >>
  /\ feedback = {}
  /\ files = {}
  /\ now = 0
  /\ nextToken = 1
  /\ lastIssued = [p \in PIds |-> NoToken]
  /\ proc = [i \in Procs |-> IdleProc]
  /\ call = NoCall
  /\ sessions = {}
  /\ feedback_tokens = << >>

\* a request may start in slot i
Free(i) == proc[i].pc \in {"idle", "returned"}
NoneInFlight == \A j \in Procs : Free(j)
Slot(i) == Free(i) /\ \A j \in Procs : j < i => ~Free(j)


\* ------------------------------------------------- configuration requests
\* POST /users/email-settings
save_email_settings ==
  /\ user' = [user EXCEPT !.email_settings = "encrypted"]
  /\ UNCHANGED <<sessions, feedback_tokens, call, event, participants, feedback, files, now,
                 nextToken, lastIssued, proc>>

\* DELETE /users/email-settings
delete_email_settings ==
  /\ user' = [user EXCEPT !.email_settings = None]
  /\ UNCHANGED <<sessions, feedback_tokens, call, event, participants, feedback, files, now,
                 nextToken, lastIssued, proc>>

\* participants.py lines 80-90: the document of a new participant
NewParticipant(name, email) ==
  [name |-> name, email |-> Lower(email), status |-> "pending",
   feedback_token |-> NoToken, feedback_submitted_at |-> NoTime,
   certificate_sent_at |-> NoTime, error_message |-> None]

\* POST /events/{event_id}/participants: rejected when the lower-cased email
\* is already on the event's roster
add_participant(name, email) ==
  /\ Cardinality(DOMAIN participants) < NumParticipants
  /\ ~ \E p \in DOMAIN participants : participants[p].email = Lower(email)
  /\ LET id == Cardinality(DOMAIN participants) + 1
     IN participants' = [p \in DOMAIN participants \cup {id} |->
          IF p = id THEN NewParticipant(name, email) ELSE participants[p]]
  /\ UNCHANGED <<sessions, feedback_tokens, call, user, event, feedback, files, now, nextToken, lastIssued, proc>>

\* POST /events/{event_id}/template
upload_template ==
  /\ event' = [event EXCEPT !.template_path = "template.png", !.updated_at = now]
  /\ UNCHANGED <<sessions, feedback_tokens, call, user, participants, feedback, files, now,
                 nextToken, lastIssued, proc>>

\* PUT /events/{event_id}: feedback_enabled is always written
update_event(feedback_enabled) ==
  /\ event' = [event EXCEPT
                 !.feedback_enabled = feedback_enabled,
                 !.updated_at = now]
  /\ UNCHANGED <<sessions, feedback_tokens, call, user, participants, feedback, files, now,
                 nextToken, lastIssued, proc>>

\* ------------------------------------------------------------ dispatch run
SetProc(i, r) == proc' = [proc EXCEPT ![i] = r]

\* a request that answers without having touched anything keeps only its response
Rejected(op, response, token) ==
  [IdleProc EXCEPT !.op = op, !.pc = "returned", !.response = response,
                   !.token = token]

Detail(p, status, error) == [participant |-> p, status |-> status, error |-> error]

\* the participants a completed dispatch run processed successfully
Succeeded(r) ==
  {r.results.details[k].participant : k \in
     {n \in DOMAIN r.results.details : r.results.details[n].status # "failed"}}

\* Selection leaving out, when feedback is disabled, the participants that
\* already got a feedback request or a certificate
SelectionUnsent(send_all) ==
  {p \in DOMAIN participants :
     /\ participants[p].status \in SelectedStatuses(send_all)
     /\ event.feedback_enabled \/ participants[p].status \in {"pending", "failed"}}

\* query = {"event_id": event_id, "status": ...}
Selection(send_all) ==
  {p \in DOMAIN participants : participants[p].status \in SelectedStatuses(send_all)}

\* SendBegin without the template check
SendBeginNoTemplateCheck(i, event_id, send_all, decrypt_ok) ==
  /\ Slot(i)
  /\ now < MaxClock
  /\ now' = now + 1
  /\ LET old == proc[i]
         again == /\ old.op = "send" /\ old.response = "200"
                  /\ old.send_all /\ send_all
                  /\ old.feedback_enabled = event.feedback_enabled
         Raise(response) ==
           SetProc(i, [Rejected("send", response, NoToken) EXCEPT !.event_id = event_id])
     IN
     IF user.email_settings = None
       THEN Raise("400 Email settings not configured")
     ELSE IF event_id # EventId
       THEN Raise("404 Event not found")
     ELSE IF ~decrypt_ok
       THEN Raise("500 Internal Server Error")
     ELSE SetProc(i, [IdleProc EXCEPT
            !.op = "send",
            !.pc = "loop",
            !.send_all = send_all,
            !.feedback_enabled = event.feedback_enabled,
            !.selected = Selection(send_all),
            !.queue = SortedSeq(Selection(send_all)),
            !.repeat_of = IF again THEN Succeeded(old) ELSE {},
            !.pre_status = [p \in PIds |->
               IF p \in DOMAIN participants THEN participants[p].status ELSE "absent"],
            !.pre_files = IF again THEN files ELSE {}])
  /\ UNCHANGED <<sessions, feedback_tokens, call, user, event, participants, feedback, files, nextToken, lastIssued>>

\* lines 33-81: load user and event, decrypt the credentials, open the cursor
SendBegin(i, event_id, send_all, decrypt_ok) ==
  /\ Slot(i)
  /\ now < MaxClock
  /\ now' = now + 1
  /\ LET old == proc[i]
         again == /\ old.op = "send" /\ old.response = "200"
                  /\ old.send_all /\ send_all
                  /\ old.feedback_enabled = event.feedback_enabled
         Raise(response) ==
           SetProc(i, [Rejected("send", response, NoToken) EXCEPT !.event_id = event_id])
     IN
     IF user.email_settings = None
       THEN Raise("400 Email settings not configured")
     ELSE IF event_id # EventId
       THEN Raise("404 Event not found")
     ELSE IF event.template_path = None
       THEN Raise("400 No template uploaded")
     ELSE IF ~decrypt_ok
       THEN Raise("500 Internal Server Error")
     ELSE SetProc(i, [IdleProc EXCEPT
            !.op = "send",
            !.pc = "loop",
            !.send_all = send_all,
            !.feedback_enabled = event.feedback_enabled,
            !.selected = Selection(send_all),
            !.queue = SortedSeq(Selection(send_all)),
            !.repeat_of = IF again THEN Succeeded(old) ELSE {},
            !.pre_status = [p \in PIds |->
               IF p \in DOMAIN participants THEN participants[p].status ELSE "absent"],
            !.pre_files = IF again THEN files ELSE {}])
  /\ UNCHANGED <<sessions, feedback_tokens, call, user, event, participants, feedback, files, nextToken, lastIssued>>

\* SendNext taking the direct branch whatever the event's toggle
SendNextDirect(i) ==
  /\ proc[i].op = "send" /\ proc[i].pc = "loop"
  /\ IF proc[i].queue = << >>
       THEN SetProc(i, [proc[i] EXCEPT !.pc = "finish"])
       ELSE SetProc(i, [proc[i] EXCEPT
              !.participant = Head(proc[i].queue),
              !.queue = Tail(proc[i].queue),
              !.results.total = @ + 1,
              !.pc = "render"])
  /\ UNCHANGED <<sessions, feedback_tokens, call, user, event, participants, feedback, files, now, nextToken, lastIssued>>

\* lines 83-92: the cursor yields the next participant, or the loop ends
SendNext(i) ==
  /\ proc[i].op = "send" /\ proc[i].pc = "loop"
  /\ IF proc[i].queue = << >>
       THEN SetProc(i, [proc[i] EXCEPT !.pc = "finish"])
       ELSE SetProc(i, [proc[i] EXCEPT
              !.participant = Head(proc[i].queue),
              !.queue = Tail(proc[i].queue),
              !.results.total = @ + 1,
              !.pc = IF proc[i].feedback_enabled THEN "store_feedback" ELSE "render"])
  /\ UNCHANGED <<sessions, feedback_tokens, call, user, event, participants, feedback, files, now, nextToken, lastIssued>>

\* Upsert as a plain insert of the new document
UpsertInsert(col, p, token) ==
  {col \cup {[participant_id |-> p, token |-> token, answers |-> << >>,
              submitted_at |-> NoTime]}}

\* feedback_col.update_one({"participant_id": p}, {"$set": doc}, upsert=True)
Upsert(col, p, token) ==
  LET matching == {f \in col : f.participant_id = p}
      doc == [participant_id |-> p, token |-> token, answers |-> << >>,
              submitted_at |-> NoTime]
  IN IF matching = {} THEN {col \cup {doc}}
     ELSE {(col \ {f}) \cup {doc} : f \in matching}

\* lines 94-109: new token, feedback record upserted by participant
SendStoreFeedback(i) ==
  /\ proc[i].op = "send" /\ proc[i].pc = "store_feedback"
  /\ feedback' \in Upsert(feedback, proc[i].participant, nextToken)
  /\ nextToken' = nextToken + 1
  /\ lastIssued' = [lastIssued EXCEPT ![proc[i].participant] = nextToken]
  /\ SetProc(i, [proc[i] EXCEPT !.token = nextToken, !.pc = "update_participant"])
  /\ UNCHANGED <<sessions, feedback_tokens, call, user, event, participants, files, now>>

\* SendUpdateParticipant leaving the last error in place
SendUpdateParticipantKeepError(i) ==
  /\ proc[i].op = "send" /\ proc[i].pc = "update_participant"
  /\ participants' = [participants EXCEPT ![proc[i].participant] =
       [@ EXCEPT !.feedback_token = proc[i].token,
                 !.status = "feedback_sent"]]
  /\ SetProc(i, [proc[i] EXCEPT !.pc = "feedback_mail"])
  /\ UNCHANGED <<sessions, feedback_tokens, call, user, event, feedback, files, now, nextToken, lastIssued>>

\* lines 111-121: token, status feedback_sent, error cleared
\* SendUpdateParticipant clearing the delivery timestamp as well
SendUpdateParticipantReset(i) ==
  /\ proc[i].op = "send" /\ proc[i].pc = "update_participant"
  /\ participants' = [participants EXCEPT ![proc[i].participant] =
       [@ EXCEPT !.feedback_token = proc[i].token,
                 !.status = "feedback_sent",
                 !.certificate_sent_at = NoTime,
                 !.error_message = None]]
  /\ SetProc(i, [proc[i] EXCEPT !.pc = "feedback_mail"])
  /\ UNCHANGED <<sessions, feedback_tokens, call, user, event, feedback, files, now, nextToken, lastIssued>>

SendUpdateParticipant(i) ==
  /\ proc[i].op = "send" /\ proc[i].pc = "update_participant"
  /\ participants' = [participants EXCEPT ![proc[i].participant] =
       [@ EXCEPT !.feedback_token = proc[i].token,
                 !.status = "feedback_sent",
                 !.error_message = None]]
  /\ SetProc(i, [proc[i] EXCEPT !.pc = "feedback_mail"])
  /\ UNCHANGED <<sessions, feedback_tokens, call, user, event, feedback, files, now, nextToken, lastIssued>>

\* an email handed to the transport by request r; gated records whether the
\* recipient's answers and submission timestamp are stored at that moment
Mail(r, kind) ==
  [to |-> r.participant, kind |-> kind,
   gated |-> \E f \in feedback :
               /\ f.participant_id = r.participant
               /\ f.submitted_at # NoTime
               /\ f.answers = r.answers]

\* lines 123-151: CertificateService.send_email, then the result entry
SendFeedbackMail(i, outcome) ==
  /\ proc[i].op = "send" /\ proc[i].pc = "feedback_mail"
  /\ IF outcome = "ok"
       THEN SetProc(i, [proc[i] EXCEPT
              !.mailed = @ \cup {Mail(proc[i], "feedback_request")},
              !.results.successful = @ + 1,
              !.results.details =
                 Append(@, Detail(proc[i].participant, "feedback_sent", None)),
              !.pc = "loop"])
       ELSE /\ outcome \in {"SMTPException"}
            /\ SetProc(i, [proc[i] EXCEPT !.error = outcome, !.pc = "except"])
  /\ UNCHANGED <<sessions, feedback_tokens, call, user, event, participants, feedback, files, now, nextToken, lastIssued>>

\* Rendered with the time of the request in the filenames
RenderedStamped(fs, name, outcome) ==
  CASE outcome = "ok"       -> fs \cup {<<"png", SafeName(name), ToString(now)>>,
                                        <<"pdf", SafeName(name), ToString(now)>>}
    [] outcome = "png_only" -> fs \cup {<<"png", SafeName(name), ToString(now)>>}
    [] OTHER                -> fs

\* CertificateService.generate_certificate: the PNG is saved before the PDF
\* is built, so a failure can leave the PNG behind
Rendered(fs, name, outcome) ==
  CASE outcome = "ok"       -> fs \cup {PngPath(name), PdfPath(name)}
    [] outcome = "png_only" -> fs \cup {PngPath(name)}
    [] OTHER                -> fs

\* SendRender marking the participant as sent once the files are written
SendRenderMarking(i, outcome) ==
  /\ proc[i].op = "send" /\ proc[i].pc = "render"
  /\ outcome \in {"ok", "png_only", "nothing"}
  /\ files' = Rendered(files, participants[proc[i].participant].name, outcome)
  /\ participants' = [participants EXCEPT ![proc[i].participant] =
       [@ EXCEPT !.status = IF outcome = "ok" THEN "certificate_sent" ELSE @]]
  /\ SetProc(i, [proc[i] EXCEPT
       !.rendered = @ \cup {proc[i].participant},
       !.error = IF outcome = "ok" THEN @ ELSE "OSError",
       !.pc = IF outcome = "ok" THEN "certificate_mail" ELSE "except"])
  /\ UNCHANGED <<sessions, feedback_tokens, call, user, event, feedback, now, nextToken, lastIssued>>

\* lines 155-178: output paths and generate_certificate
SendRender(i, outcome) ==
  /\ proc[i].op = "send" /\ proc[i].pc = "render"
  /\ outcome \in {"ok", "png_only", "nothing"}
  /\ files' = Rendered(files, participants[proc[i].participant].name, outcome)
  /\ SetProc(i, [proc[i] EXCEPT
       !.rendered = @ \cup {proc[i].participant},
       !.error = IF outcome = "ok" THEN @ ELSE "OSError",
       !.pc = IF outcome = "ok" THEN "certificate_mail" ELSE "except"])
  /\ UNCHANGED <<sessions, feedback_tokens, call, user, event, participants, feedback, now, nextToken, lastIssued>>

\* lines 180-188: CertificateService.send_certificate
SendCertificateMail(i, outcome) ==
  /\ proc[i].op = "send" /\ proc[i].pc = "certificate_mail"
  /\ IF outcome = "ok"
       THEN SetProc(i, [proc[i] EXCEPT
              !.mailed = @ \cup {Mail(proc[i], "certificate")},
              !.pc = "mark_sent"])
       ELSE /\ outcome \in {"SMTPException"}
            /\ SetProc(i, [proc[i] EXCEPT !.error = outcome, !.pc = "except"])
  /\ UNCHANGED <<sessions, feedback_tokens, call, user, event, participants, feedback, files, now, nextToken, lastIssued>>

\* lines 190-206: status certificate_sent, timestamp, error cleared
SendMarkSent(i) ==
  /\ proc[i].op = "send" /\ proc[i].pc = "mark_sent"
  /\ participants' = [participants EXCEPT ![proc[i].participant] =
       [@ EXCEPT !.status = "certificate_sent",
                 !.certificate_sent_at = now,
                 !.error_message = None]]
  /\ SetProc(i, [proc[i] EXCEPT
       !.results.successful = @ + 1,
       !.results.details =
          Append(@, Detail(proc[i].participant, "certificate_sent", None)),
       !.pc = "loop"])
  /\ UNCHANGED <<sessions, feedback_tokens, call, user, event, feedback, files, now, nextToken, lastIssued>>

\* SendExcept with the exception leaving the loop
SendExceptAbort(i) ==
  /\ proc[i].op = "send" /\ proc[i].pc = "except"
  /\ participants' = [participants EXCEPT ![proc[i].participant] =
       [@ EXCEPT !.status = "failed",
                 !.error_message = Str(proc[i].error)]]
  /\ SetProc(i, [proc[i] EXCEPT
       !.results.failed = @ + 1,
       !.results.details =
          Append(@, Detail(proc[i].participant, "failed", Str(proc[i].error))),
       !.error = None,
       !.pc = "finish"])
  /\ UNCHANGED <<sessions, feedback_tokens, call, user, event, feedback, files, now, nextToken, lastIssued>>

\* lines 208-224: except Exception as e
\* SendExcept withdrawing the token issued for the participant
SendExceptRevoke(i) ==
  /\ proc[i].op = "send" /\ proc[i].pc = "except"
  /\ participants' = [participants EXCEPT ![proc[i].participant] =
       [@ EXCEPT !.status = "failed",
                 !.error_message = Str(proc[i].error)]]
  /\ feedback' = {f \in feedback : f.token # proc[i].token}
  /\ SetProc(i, [proc[i] EXCEPT
       !.results.failed = @ + 1,
       !.results.details =
          Append(@, Detail(proc[i].participant, "failed", Str(proc[i].error))),
       !.error = None,
       !.pc = "loop"])
  /\ UNCHANGED <<sessions, feedback_tokens, call, user, event, files, now, nextToken, lastIssued>>

SendExcept(i) ==
  /\ proc[i].op = "send" /\ proc[i].pc = "except"
  /\ participants' = [participants EXCEPT ![proc[i].participant] =
       [@ EXCEPT !.status = "failed",
                 !.error_message = Str(proc[i].error)]]
  /\ SetProc(i, [proc[i] EXCEPT
       !.results.failed = @ + 1,
       !.results.details =
          Append(@, Detail(proc[i].participant, "failed", Str(proc[i].error))),
       !.error = None,
       !.pc = "loop"])
  /\ UNCHANGED <<sessions, feedback_tokens, call, user, event, feedback, files, now, nextToken, lastIssued>>

\* SendFinish deciding the event status on the successful count
SendFinishOnSuccessful(i) ==
  /\ proc[i].op = "send" /\ proc[i].pc = "finish"
  /\ event' = [event EXCEPT
       !.status = IF proc[i].results.successful = proc[i].results.total
                    /\ proc[i].results.total > 0
                  THEN "completed" ELSE "sending",
       !.updated_at = now]
  /\ SetProc(i, [proc[i] EXCEPT !.pc = "returned", !.response = "200"])
  /\ UNCHANGED <<sessions, feedback_tokens, call, user, participants, feedback, files, now, nextToken, lastIssued>>

\* lines 226-233: event status from the failed count, results returned
SendFinish(i) ==
  /\ proc[i].op = "send" /\ proc[i].pc = "finish"
  /\ event' = [event EXCEPT
       !.status = IF proc[i].results.failed = 0 THEN "completed" ELSE "sending",
       !.updated_at = now]
  /\ SetProc(i, [proc[i] EXCEPT !.pc = "returned", !.response = "200"])
  /\ UNCHANGED <<sessions, feedback_tokens, call, user, participants, feedback, files, now, nextToken, lastIssued>>


\* SubmitBegin without the submitted_at check
SubmitBeginNoCheck(i, token, answers) ==
  /\ Slot(i)
  /\ now < MaxClock
  /\ now' = now + 1
  /\ LET matching == {f \in feedback : f.token = token}
     IN
     IF matching = {}
       THEN SetProc(i, Rejected("submit", "404 Feedback link not found or expired", token))
     ELSE \E f \in matching :
       IF f.participant_id \notin DOMAIN participants
         THEN SetProc(i, Rejected("submit", "404 Participant not found", token))
       ELSE IF user.email_settings = None
         THEN SetProc(i, Rejected("submit", "500 Event owner email not configured", token))
       ELSE SetProc(i, [IdleProc EXCEPT
              !.op = "submit",
              !.pc = "save_answers",
              !.token = token,
              !.answers = answers,
              !.fb = f,
              !.pre_status = [p \in PIds |->
                 IF p \in DOMAIN participants THEN participants[p].status ELSE "absent"],
              !.participant = f.participant_id])
  /\ UNCHANGED <<sessions, feedback_tokens, call, user, event, participants, feedback, files, nextToken, lastIssued>>

\* -------------------------------------------------------------- redemption
\* lines 61-87: look up the token, the participant, the event and its owner
\* SubmitBegin storing the answers before the owner's email settings are read
SubmitBeginSavingFirst(i, token, answers) ==
  /\ Slot(i)
  /\ now < MaxClock
  /\ now' = now + 1
  /\ LET matching == {f \in feedback : f.token = token}
     IN
     IF matching = {}
       THEN /\ SetProc(i, Rejected("submit", "404 Feedback link not found or expired", token))
            /\ feedback' = feedback
     ELSE \E f \in matching :
       IF f.submitted_at # NoTime
         THEN /\ SetProc(i, Rejected("submit", "410 Feedback already submitted", token))
              /\ feedback' = feedback
       ELSE IF f.participant_id \notin DOMAIN participants
         THEN /\ SetProc(i, Rejected("submit", "404 Participant not found", token))
              /\ feedback' = feedback
       ELSE IF user.email_settings = None
         THEN /\ SetProc(i, Rejected("submit", "500 Event owner email not configured", token))
              /\ feedback' = (feedback \ {f}) \cup
                   {[f EXCEPT !.answers = answers, !.submitted_at = now]}
       ELSE /\ feedback' = feedback
            /\ SetProc(i, [IdleProc EXCEPT
              !.op = "submit",
              !.pc = "save_answers",
              !.token = token,
              !.answers = answers,
              !.fb = f,
              !.pre_status = [p \in PIds |->
                 IF p \in DOMAIN participants THEN participants[p].status ELSE "absent"],
              !.participant = f.participant_id])
  /\ UNCHANGED <<sessions, feedback_tokens, call, user, event, participants, files, nextToken, lastIssued>>

SubmitBegin(i, token, answers) ==
  /\ Slot(i)
  /\ now < MaxClock
  /\ now' = now + 1
  /\ LET matching == {f \in feedback : f.token = token}
     IN
     IF matching = {}
       THEN SetProc(i, Rejected("submit", "404 Feedback link not found or expired", token))
     ELSE \E f \in matching :
       IF f.submitted_at # NoTime
         THEN SetProc(i, Rejected("submit", "410 Feedback already submitted", token))
       ELSE IF f.participant_id \notin DOMAIN participants
         THEN SetProc(i, Rejected("submit", "404 Participant not found", token))
       ELSE IF user.email_settings = None
         THEN SetProc(i, Rejected("submit", "500 Event owner email not configured", token))
       ELSE SetProc(i, [IdleProc EXCEPT
              !.op = "submit",
              !.pc = "save_answers",
              !.token = token,
              !.answers = answers,
              !.fb = f,
              !.pre_status = [p \in PIds |->
                 IF p \in DOMAIN participants THEN participants[p].status ELSE "absent"],
              !.participant = f.participant_id])
  /\ UNCHANGED <<sessions, feedback_tokens, call, user, event, participants, feedback, files, nextToken, lastIssued>>

\* lines 89-98: feedback_col.update_one({"token": token}, answers and timestamp)
SubmitSaveAnswers(i) ==
  /\ proc[i].op = "submit" /\ proc[i].pc = "save_answers"
  /\ LET matching == {f \in feedback : f.token = proc[i].token}
     IN IF matching = {} THEN feedback' = feedback
        ELSE \E f \in matching :
               feedback' = (feedback \ {f}) \cup
                 {[f EXCEPT !.answers = proc[i].answers, !.submitted_at = now]}
  /\ SetProc(i, [proc[i] EXCEPT !.pc = "mark_received"])
  /\ UNCHANGED <<sessions, feedback_tokens, call, user, event, participants, files, now, nextToken, lastIssued>>

\* SubmitMarkReceived writing the status without the submission time
SubmitMarkReceivedNoStamp(i) ==
  /\ proc[i].op = "submit" /\ proc[i].pc = "mark_received"
  /\ participants' = [participants EXCEPT ![proc[i].participant] =
       [@ EXCEPT !.status = "feedback_received"]]
  /\ SetProc(i, [proc[i] EXCEPT !.pc = "render"])
  /\ UNCHANGED <<sessions, feedback_tokens, call, user, event, feedback, files, now, nextToken, lastIssued>>

\* lines 100-109: status feedback_received, feedback_submitted_at
SubmitMarkReceived(i) ==
  /\ proc[i].op = "submit" /\ proc[i].pc = "mark_received"
  /\ participants' = [participants EXCEPT ![proc[i].participant] =
       [@ EXCEPT !.status = "feedback_received",
                 !.feedback_submitted_at = now]]
  /\ SetProc(i, [proc[i] EXCEPT !.pc = "render"])
  /\ UNCHANGED <<sessions, feedback_tokens, call, user, event, feedback, files, now, nextToken, lastIssued>>

\* lines 112-143: decrypt_app_password, output paths, generate_certificate
SubmitRender(i, outcome) ==
  /\ proc[i].op = "submit" /\ proc[i].pc = "render"
  /\ outcome \in {"ok", "png_only", "nothing", "InvalidToken"}
  /\ files' = Rendered(files, participants[proc[i].participant].name, outcome)
  /\ SetProc(i, [proc[i] EXCEPT
       !.rendered = IF outcome = "InvalidToken" THEN @ ELSE @ \cup {proc[i].participant},
       !.error = CASE outcome = "ok" -> @
                   [] outcome = "InvalidToken" -> "InvalidToken"
                   [] OTHER -> "OSError",
       !.pc = IF outcome = "ok" THEN "certificate_mail" ELSE "except"])
  /\ UNCHANGED <<sessions, feedback_tokens, call, user, event, participants, feedback, now, nextToken, lastIssued>>

\* lines 145-153: CertificateService.send_certificate
SubmitCertificateMail(i, outcome) ==
  /\ proc[i].op = "submit" /\ proc[i].pc = "certificate_mail"
  /\ IF outcome = "ok"
       THEN SetProc(i, [proc[i] EXCEPT
              !.mailed = @ \cup {Mail(proc[i], "certificate")},
              !.pc = "mark_sent"])
       ELSE /\ outcome \in {"SMTPException"}
            /\ SetProc(i, [proc[i] EXCEPT !.error = outcome, !.pc = "except"])
  /\ UNCHANGED <<sessions, feedback_tokens, call, user, event, participants, feedback, files, now, nextToken, lastIssued>>

\* lines 155-169: status certificate_sent, certificate_sent_at
SubmitMarkSent(i) ==
  /\ proc[i].op = "submit" /\ proc[i].pc = "mark_sent"
  /\ participants' = [participants EXCEPT ![proc[i].participant] =
       [@ EXCEPT !.status = "certificate_sent",
                 !.certificate_sent_at = now]]
  /\ SetProc(i, [proc[i] EXCEPT !.pc = "returned", !.response = "200"])
  /\ UNCHANGED <<sessions, feedback_tokens, call, user, event, feedback, files, now, nextToken, lastIssued>>

\* SubmitExcept recording the error without the status
SubmitExceptNoStatus(i) ==
  /\ proc[i].op = "submit" /\ proc[i].pc = "except"
  /\ participants' = [participants EXCEPT ![proc[i].participant] =
       [@ EXCEPT !.error_message = Str(proc[i].error)]]
  /\ SetProc(i, [proc[i] EXCEPT !.pc = "returned",
                                !.response = "500 Failed to send certificate"])
  /\ UNCHANGED <<sessions, feedback_tokens, call, user, event, feedback, files, now, nextToken, lastIssued>>

\* SubmitExcept undoing the submission, as the in-memory flow does
SubmitExceptRollback(i) ==
  /\ proc[i].op = "submit" /\ proc[i].pc = "except"
  /\ participants' = [participants EXCEPT ![proc[i].participant] =
       [@ EXCEPT !.status = "failed",
                 !.error_message = Str(proc[i].error)]]
  /\ feedback' = {IF f.token = proc[i].token
                    THEN [f EXCEPT !.submitted_at = NoTime] ELSE f : f \in feedback}
  /\ SetProc(i, [proc[i] EXCEPT !.pc = "returned",
                                !.response = "500 Failed to send certificate"])
  /\ UNCHANGED <<sessions, feedback_tokens, call, user, event, files, now, nextToken, lastIssued>>

\* lines 171-182: except Exception as e
SubmitExcept(i) ==
  /\ proc[i].op = "submit" /\ proc[i].pc = "except"
  /\ participants' = [participants EXCEPT ![proc[i].participant] =
       [@ EXCEPT !.status = "failed",
                 !.error_message = Str(proc[i].error)]]
  /\ SetProc(i, [proc[i] EXCEPT !.pc = "returned",
                                !.response = "500 Failed to send certificate"])
  /\ UNCHANGED <<sessions, feedback_tokens, call, user, event, feedback, files, now, nextToken, lastIssued>>

\* ---------------------------------------------------------- specification
MailOutcomes == {"ok", "SMTPException"}
RenderOutcomes == {"ok", "png_only", "nothing"}

Next ==
  \/ NoneInFlight /\ save_email_settings
  \/ NoneInFlight /\ delete_email_settings
  \/ NoneInFlight /\ upload_template
  \/ NoneInFlight /\ \E k \in PIds :
       /\ k = Cardinality(DOMAIN participants) + 1
       /\ add_participant(RosterName(k), RosterEmail(k))
  \/ NoneInFlight /\ \E fe \in BOOLEAN : update_event(fe)
  \/ NoneInFlight /\ \E i \in Procs, e \in EventIds, sa \in BOOLEAN, ok \in BOOLEAN : SendBegin(i, e, sa, ok)
  \/ \E i \in Procs : SendNext(i)
  \/ \E i \in Procs : SendStoreFeedback(i)
  \/ \E i \in Procs : SendUpdateParticipant(i)
  \/ \E i \in Procs, o \in MailOutcomes : SendFeedbackMail(i, o)
  \/ \E i \in Procs, o \in RenderOutcomes : SendRender(i, o)
  \/ \E i \in Procs, o \in MailOutcomes : SendCertificateMail(i, o)
  \/ \E i \in Procs : SendMarkSent(i)
  \/ \E i \in Procs : SendExcept(i)
  \/ \E i \in Procs : SendFinish(i)
  \/ NoneInFlight /\ \E i \in Procs, t \in Tokens, a \in AnswerLists : SubmitBegin(i, t, a)
  \/ \E i \in Procs : SubmitSaveAnswers(i)
  \/ \E i \in Procs : SubmitMarkReceived(i)
  \/ \E i \in Procs, o \in RenderOutcomes \cup {"InvalidToken"} : SubmitRender(i, o)
  \/ \E i \in Procs, o \in MailOutcomes : SubmitCertificateMail(i, o)
  \/ \E i \in Procs : SubmitMarkSent(i)
  \/ \E i \in Procs : SubmitExcept(i)

Spec == Init /\ [][Next]_vars


\* Requests in flight together.  The event is set up, a dispatch run under
\* feedback mode has gone over the roster and returned, and one more
\* participant has been added since; from there two requests start, the
\* second possibly while the first is between two of its database or mail
\* calls (the clock has two ticks left).
InitConc ==
  /\ user = [email_settings |-> "encrypted"]
  /\ event = [template_path |-> "template.png", feedback_enabled |-> TRUE,
              status |-> "completed", updated_at |-> MaxClock - 2]
  /\ participants = [p \in PIds |->
       IF p < NumParticipants
         THEN [NewParticipant(RosterName(p), RosterEmail(p)) EXCEPT
                 !.status = "feedback_sent", !.feedback_token = p]
         ELSE NewParticipant(RosterName(p), RosterEmail(p))]
  /\ feedback = {[participant_id |-> p, token |-> p, answers |-> << >>,
                  submitted_at |-> NoTime] : p \in 1..(NumParticipants - 1)}
  /\ files = {}
  /\ now = MaxClock - 2
  /\ nextToken = NumParticipants
  /\ lastIssued = [p \in PIds |-> IF p < NumParticipants THEN p ELSE NoToken]
  /\ proc = [i \in Procs |-> IdleProc]
  /\ call = NoCall
  /\ sessions = {}
  /\ feedback_tokens = << >>

NextConc ==
  \/ \E fe \in BOOLEAN : update_event(fe)
  \/ \E i \in Procs, sa \in BOOLEAN : SendBegin(i, EventId, sa, TRUE)
  \/ \E i \in Procs : SendNext(i)
  \/ \E i \in Procs : SendStoreFeedback(i)
  \/ \E i \in Procs : SendUpdateParticipant(i)
  \/ \E i \in Procs, o \in MailOutcomes : SendFeedbackMail(i, o)
  \/ \E i \in Procs, o \in RenderOutcomes : SendRender(i, o)
  \/ \E i \in Procs, o \in MailOutcomes : SendCertificateMail(i, o)
  \/ \E i \in Procs : SendMarkSent(i)
  \/ \E i \in Procs : SendExcept(i)
  \/ \E i \in Procs : SendFinish(i)
  \/ \E i \in Procs, t \in Tokens, a \in AnswerLists : SubmitBegin(i, t, a)
  \/ \E i \in Procs : SubmitSaveAnswers(i)
  \/ \E i \in Procs : SubmitMarkReceived(i)
  \/ \E i \in Procs, o \in RenderOutcomes \cup {"InvalidToken"} : SubmitRender(i, o)
  \/ \E i \in Procs, o \in MailOutcomes : SubmitCertificateMail(i, o)
  \/ \E i \in Procs : SubmitMarkSent(i)
  \/ \E i \in Procs : SubmitExcept(i)

SpecConc == InitConc /\ [][NextConc]_vars

\* ------------------------------------------------------- service functions
\* The compositor and the other service functions are followed one call at a
\* time: call holds the arguments and, once the function has run, its result.
NoResult == [none |-> TRUE]

\* generate_certificate with an A4 landscape page
generate_certificate_a4(W, H, w, h, text_x, text_y) ==
  [draw  |-> [x |-> (W - w) \div 2, y |-> text_y - (h \div 2)],
   png   |-> [width |-> W, height |-> H],
   page  |-> [width |-> 842, height |-> 595],
   image |-> [x |-> 0, y |-> 0, width |-> W, height |-> H]]

\* generate_certificate taking text_y as the top of the text
generate_certificate_top(W, H, w, h, text_x, text_y) ==
  [draw  |-> [x |-> (W - w) \div 2, y |-> text_y],
   png   |-> [width |-> W, height |-> H],
   page  |-> [width |-> W, height |-> H],
   image |-> [x |-> 0, y |-> 0, width |-> W, height |-> H]]

\* CertificateService.generate_certificate on a surface of W x H pixels, for a
\* name whose bounding box measures w x h: where the text is drawn, the size of
\* the PNG, the page of the document and the image drawn on it
generate_certificate(W, H, w, h, text_x, text_y) ==
  [draw  |-> [x |-> (W - w) \div 2, y |-> text_y - (h \div 2)],
   png   |-> [width |-> W, height |-> H],
   page  |-> [width |-> W, height |-> H],
   image |-> [x |-> 0, y |-> 0, width |-> W, height |-> H]]

\* generate_preview rounding the centred position towards zero
generate_preview_truncating(W, H, w, x, y) ==
  [draw |-> [x |-> IF W >= w THEN (W - w) \div 2 ELSE -((w - W) \div 2), y |-> y],
   png  |-> [width |-> W, height |-> H]]

\* TemplateService.generate_preview
generate_preview(W, H, w, x, y) ==
  [draw |-> [x |-> (W - w) \div 2, y |-> y],
   png  |-> [width |-> W, height |-> H]]

\* an organizer places the text on a template: the preview, and the final
\* generation with the same vertical position
Compositions ==
  [fn : {"compose"},
   W : 1..MaxDim, H : 1..MaxDim,
   w : 0..(MaxDim + 1), h : 0..MaxDim,
   x : 0..MaxDim, y : 0..MaxDim,
   preview : {NoResult}, final : {NoResult}]

\* POST /preview-text
GeneratePreview ==
  /\ call.fn = "compose" /\ call.preview = NoResult
  /\ call' = [call EXCEPT !.preview =
                generate_preview(call.W, call.H, call.w, call.x, call.y)]
  /\ UNCHANGED <<sessions, feedback_tokens, user, event, participants, feedback, files, now,
                 nextToken, lastIssued, proc>>

\* the call of generate_certificate in send.py and feedback.py
GenerateCertificate ==
  /\ call.fn = "compose" /\ call.final = NoResult
  /\ call' = [call EXCEPT !.final =
                generate_certificate(call.W, call.H, call.w, call.h, call.x, call.y)]
  /\ UNCHANGED <<sessions, feedback_tokens, user, event, participants, feedback, files, now,
                 nextToken, lastIssued, proc>>

\* texts are lists of words; a placeholder is one word
Words == {"Dear", "{name}", "{event_name}"}
Texts == UNION {[1..n -> Words] : n \in 0..MaxWords}

\* str.replace(old, new)
RECURSIVE Replace(_, _, _)
Replace(str, old, new) ==
  IF str = << >> THEN << >>
  ELSE (IF Head(str) = old THEN new ELSE <<Head(str)>>) \o Replace(Tail(str), old, new)

\* CertificateService.send_certificate: subject and body of the message
send_certificate(name, subject, body, event_name) ==
  [subject |-> Replace(Replace(subject, "{name}", name), "{event_name}", event_name),
   body    |-> Replace(Replace(body, "{name}", name), "{event_name}", event_name)]

\* the certificate mail of a participant of an event with email copy
Mailings ==
  [fn : {"send_certificate"},
   name : {<<"Ada">>, <<"Ada", "Lovelace">>},
   event_name : {<<"Expo">>},
   subject : Texts, body : Texts,
   message : {NoResult}]

\* the call of send_certificate in send.py and feedback.py: event_name is not
\* passed and takes its default, the empty string
SendCertificate ==
  /\ call.fn = "send_certificate" /\ call.message = NoResult
  /\ call' = [call EXCEPT !.message =
                send_certificate(call.name, call.subject, call.body, << >>)]
  /\ UNCHANGED <<sessions, feedback_tokens, user, event, participants, feedback, files, now,
                 nextToken, lastIssued, proc>>

\* fonts.py SYSTEM_FONT_PATHS and config.py GOOGLE_FONTS, SYSTEM_FONTS: the
\* entries of one system font and of one web font, the whole fallback list
SYSTEM_FONT_PATHS ==
  [n \in {"Georgia"} |->
     <<"/System/Library/Fonts/Georgia.ttf", "/Library/Fonts/Georgia.ttf">>]
GOOGLE_FONTS == {"Roboto"}
SYSTEM_FONTS ==
  <<"/System/Library/Fonts/Supplemental/Arial.ttf",
    "/System/Library/Fonts/Supplemental/Times New Roman Bold.ttf",
    "/Library/Fonts/Georgia.ttf",
    "C:/Windows/Fonts/times.ttf",
    "C:/Windows/Fonts/timesbd.ttf",
    "/usr/share/fonts/truetype/dejavu/DejaVuSerif-Bold.ttf">>
\* settings.FONTS_DIR / font_filename
FontFile == [n \in GOOGLE_FONTS |-> "fonts/Roboto.ttf"]
FontNames == {"Georgia", "Roboto", "Comic Sans"}
Range(seq) == {seq[k] : k \in DOMAIN seq}
FontPaths ==
  Range(SYSTEM_FONT_PATHS["Georgia"]) \cup Range(SYSTEM_FONTS)
    \cup {FontFile[n] : n \in GOOGLE_FONTS}
\* a file is absent, a font that loads, or a file ImageFont.truetype rejects
FileSystems ==
  {fs \in [FontPaths -> {"absent", "good", "corrupt"}] :
     Cardinality({q \in FontPaths : fs[q] # "absent"}) <= MaxFiles}
\* urlretrieve: stores a font, stores something that is not a font, raises
\* before writing, or raises leaving a partial file
Downloads == {"good", "corrupt", "fail", "partial"}
DefaultFont == [path |-> "default"]
Raised == [raised |-> TRUE]

\* the loop "if exists: try truetype, except continue" over a list of paths
\* a corrupt file ends the resolution with an exception
RECURSIVE FirstLoadableRaising(_, _)
FirstLoadableRaising(paths, fs) ==
  IF paths = << >> THEN NoResult
  ELSE IF fs[Head(paths)] = "good" THEN [path |-> Head(paths)]
  ELSE IF fs[Head(paths)] = "corrupt" THEN Raised
  ELSE FirstLoadableRaising(Tail(paths), fs)

RECURSIVE FirstLoadable(_, _)
FirstLoadable(paths, fs) ==
  IF paths = << >> THEN NoResult
  ELSE IF fs[Head(paths)] = "good" THEN [path |-> Head(paths)]
  ELSE FirstLoadable(Tail(paths), fs)

\* download_google_font: the path or None, and the file system afterwards
download_google_font(font_name, fs, download) ==
  LET font_path == FontFile[font_name] IN
  IF fs[font_path] # "absent" THEN [path |-> font_path, fs |-> fs]
  ELSE CASE download = "good" ->
              [path |-> font_path, fs |-> [fs EXCEPT ![font_path] = "good"]]
         [] download = "corrupt" ->
              [path |-> font_path, fs |-> [fs EXCEPT ![font_path] = "corrupt"]]
         [] download = "partial" ->
              [path |-> None, fs |-> [fs EXCEPT ![font_path] = "corrupt"]]
         [] OTHER -> [path |-> None, fs |-> fs]

\* get_font: the font returned and the file system afterwards
get_font(font_name, fs, download) ==
  LET system == IF font_name \in DOMAIN SYSTEM_FONT_PATHS
                THEN FirstLoadable(SYSTEM_FONT_PATHS[font_name], fs)
                ELSE NoResult
      web == font_name \in GOOGLE_FONTS
      got == IF web THEN download_google_font(font_name, fs, download)
             ELSE [path |-> None, fs |-> fs]
      google == IF web /\ got.path # None
                THEN FirstLoadable(<<got.path>>, got.fs)
                ELSE NoResult
      fallback == FirstLoadable(SYSTEM_FONTS, got.fs)
  IN  IF system # NoResult THEN [font |-> system, fs |-> fs]
      ELSE IF google # NoResult THEN [font |-> google, fs |-> got.fs]
      ELSE IF fallback # NoResult THEN [font |-> fallback, fs |-> got.fs]
      ELSE [font |-> DefaultFont, fs |-> got.fs]

FontRequests ==
  [fn : {"get_font"}, font_name : FontNames, fs : FileSystems,
   download : Downloads, before : {NoResult}, font : {NoResult}]

GetFont ==
  /\ call.fn = "get_font" /\ call.font = NoResult
  /\ LET r == get_font(call.font_name, call.fs, call.download) IN
       call' = [call EXCEPT !.font = r.font, !.fs = r.fs, !.before = call.fs]
  /\ UNCHANGED <<sessions, feedback_tokens, user, event, participants, feedback, files, now,
                 nextToken, lastIssued, proc>>

\* db_models.py EventUpdate: the fields of the body of PUT /events/{event_id}
\* and the value each takes when the body does not supply it
EventUpdateFields ==
  {"name", "description", "text_settings", "feedback_enabled",
   "feedback_questions", "email_subject", "email_body",
   "feedback_email_subject", "feedback_email_body"}
EventUpdateDefault(f) == IF f = "feedback_enabled" THEN TRUE ELSE None
EventUpdate(body) ==
  [f \in EventUpdateFields |->
     IF f \in DOMAIN body THEN body[f] ELSE EventUpdateDefault(f)]

\* events.py update_event: the document given to $set
update_doc(update) ==
  LET optional == {"name", "description", "text_settings", "feedback_questions",
                   "email_subject", "email_body"}
      written == {f \in optional : update[f] # None} \cup {"feedback_enabled"}
  IN  [f \in written \cup {"updated_at"} |->
         IF f = "updated_at" THEN "utcnow" ELSE update[f]]

\* events.update_one(..., {"$set": doc})
Set(document, doc) ==
  [f \in DOMAIN document \cup DOMAIN doc |->
     IF f \in DOMAIN doc THEN doc[f] ELSE document[f]]

\* an event document and the body of an update
EventDocuments ==
  {[f \in EventUpdateFields \cup {"updated_at"} |->
      IF f = "feedback_enabled" THEN b ELSE "old"] : b \in BOOLEAN}
Bodies ==
  {[f \in S |-> IF f = "feedback_enabled" THEN b ELSE "new"] :
     S \in SUBSET EventUpdateFields, b \in BOOLEAN}
EventUpdates ==
  [fn : {"update_event"}, document : EventDocuments, body : Bodies,
   updated : {NoResult}]

\* PUT /events/{event_id} on an event of the caller
UpdateEvent ==
  /\ call.fn = "update_event" /\ call.updated = NoResult
  /\ call' = [call EXCEPT !.updated =
                Set(call.document, update_doc(EventUpdate(call.body)))]
  /\ UNCHANGED <<sessions, feedback_tokens, user, event, participants, feedback, files, now,
                 nextToken, lastIssued, proc>>

\* convert_from_path(path, dpi)[0].height for a page of the given height in
\* inches; Image.open(path).height for an image of the given height in pixels
RasterHeight(template, dpi) ==
  IF template.format = "pdf" THEN template.height * dpi ELSE template.height

\* TemplateService.process_template and upload_template: the height measured
\* and the default vertical position stored
process_template(template) ==
  LET height == RasterHeight(template, 150)
  IN  [template_height |-> height, y_position |-> height \div 2]

\* CertificateService.generate_certificate: the surface the name is drawn on
load_template(template) == [height |-> RasterHeight(template, 300)]

\* an image (height in pixels) or a document (height of its first page in
\* inches) uploaded as template and later used for a certificate
Templates ==
  [fn : {"template"},
   template : [format : {"image", "pdf"}, height : 1..MaxDim],
   stored : {NoResult}, surface : {NoResult}]

UploadTemplate ==
  /\ call.fn = "template" /\ call.stored = NoResult
  /\ call' = [call EXCEPT !.stored = process_template(call.template)]
  /\ UNCHANGED <<sessions, feedback_tokens, user, event, participants, feedback,
                 files, now, nextToken, lastIssued, proc>>

LoadTemplate ==
  /\ call.fn = "template" /\ call.stored # NoResult /\ call.surface = NoResult
  /\ call' = [call EXCEPT !.surface = load_template(call.template)]
  /\ UNCHANGED <<sessions, feedback_tokens, user, event, participants, feedback,
                 files, now, nextToken, lastIssued, proc>>

Calls ==
  Compositions \cup Mailings \cup FontRequests \cup EventUpdates \cup Templates

InitCalls ==
  /\ user = [email_settings |-> None]
  /\ event = [template_path |-> None,
              feedback_enabled |-> TRUE, status |-> "draft", updated_at |-> 0]
  /\ participants = << >>
  /\ feedback = {}
  /\ files = {}
  /\ now = 0
  /\ nextToken = 1
  /\ lastIssued = [p \in PIds |-> NoToken]
  /\ proc = [i \in Procs |-> IdleProc]
  /\ call \in Calls
  /\ sessions = {}
  /\ feedback_tokens = << >>

NextCalls ==
  \/ GeneratePreview
  \/ GenerateCertificate
  \/ SendCertificate
  \/ GetFont
  \/ UpdateEvent
  \/ UploadTemplate
  \/ LoadTemplate

SpecCalls == InitCalls /\ [][NextCalls]_vars

\* ------------------------------------------------------------------ roster
\* str.strip(): blanks at both ends removed
RECURSIVE Strip(_)
Strip(str) ==
  IF str = << >> THEN << >>
  ELSE IF Head(str) = " " THEN Strip(Tail(str))
  ELSE IF str[Len(str)] = " " THEN Strip(SubSeq(str, 1, Len(str) - 1))
  ELSE str

\* names and addresses a client posts to add_participant (the address is an
\* EmailStr), and the cells str(row["Name"]), str(row["Email"]) of a sheet
PostedNames == {<<"E", "f">>, <<"G">>, <<"A", "/", "b">>}
PostedEmails ==
  {<<"A", "@", "x">>, <<"a", "@", "x">>, <<"c", "@", "x">>,
   <<"E", "@", "x">>, <<"c", "@", "y">>}
SheetRows ==
  {[Name |-> <<"E", "f">>,      Email |-> <<"A", "@", "x">>],
   [Name |-> <<" ", "G", " ">>, Email |-> <<" ", "a", "@", "x", " ">>],
   [Name |-> <<"G">>,           Email |-> <<"c", "@", "x">>],
   [Name |-> <<"A", "/", "b">>, Email |-> <<"c", "@", "y">>],
   [Name |-> <<" ">>,           Email |-> <<"E", "@", "x">>],
   [Name |-> <<"E", "f">>,      Email |-> <<"a", "x">>],
   [Name |-> <<"G">>,           Email |-> <<" ">>]}
Sheets == UNION {[1..n -> SheetRows] : n \in 1..MaxRows}

\* insert_one: the document takes the next id of the roster
insert_one(roster, doc) ==
  [p \in DOMAIN roster \cup {Cardinality(DOMAIN roster) + 1} |->
     IF p \in DOMAIN roster THEN roster[p] ELSE doc]

\* the loop of upload_participants over the rows: the roster and the counts
\* every address is unknown to the duplicate check
RECURSIVE ProcessRowsNoCheck(_, _)
ProcessRowsNoCheck(rows, acc) ==
  IF rows = << >> THEN acc
  ELSE
    LET name == Strip(Head(rows).Name)
        email == Lower(Strip(Head(rows).Email))
    IN  IF name = << >> \/ email = << >> \/ ~ \E k \in DOMAIN email : email[k] = "@"
        THEN ProcessRowsNoCheck(Tail(rows), [acc EXCEPT !.errors = @ + 1])
        ELSE ProcessRowsNoCheck(Tail(rows),
               [acc EXCEPT !.roster = insert_one(@, NewParticipant(name, email)),
                           !.added = @ + 1])

RECURSIVE ProcessRows(_, _)
ProcessRows(rows, acc) ==
  IF rows = << >> THEN acc
  ELSE
    LET name == Strip(Head(rows).Name)
        email == Lower(Strip(Head(rows).Email))
    IN  IF name = << >> \/ email = << >> \/ ~ \E k \in DOMAIN email : email[k] = "@"
        THEN ProcessRows(Tail(rows), [acc EXCEPT !.errors = @ + 1])
        ELSE IF \E p \in DOMAIN acc.roster : acc.roster[p].email = email
        THEN ProcessRows(Tail(rows), [acc EXCEPT !.skipped = @ + 1])
        ELSE ProcessRows(Tail(rows),
               [acc EXCEPT !.roster = insert_one(@, NewParticipant(name, email)),
                           !.added = @ + 1])

\* POST /events/{event_id}/participants/upload with a readable sheet that has
\* the columns Name and Email; call holds the response
upload_participants(rows) ==
  LET r == ProcessRows(rows, [roster |-> participants, added |-> 0,
                               skipped |-> 0, errors |-> 0])
  IN  /\ Cardinality(DOMAIN r.roster) <= NumParticipants
      /\ participants' = r.roster
      /\ call' = [fn |-> "upload_participants", added |-> r.added,
                   skipped |-> r.skipped, errors |-> r.errors,
                   total_count |-> Cardinality(DOMAIN r.roster)]
      /\ UNCHANGED <<sessions, feedback_tokens, user, event, feedback, files, now, nextToken, lastIssued, proc>>

NextRoster ==
  \/ \E name \in PostedNames, email \in PostedEmails : add_participant(name, email)
  \/ \E rows \in Sheets : upload_participants(rows)

SpecRoster == Init /\ [][NextRoster]_vars

\* --------------------------------------------------------------- deletions
\* the event document after delete_event
NoEvent == [deleted |-> TRUE]

\* DELETE /events/{event_id}/participants/{participant_id}: only the
\* participant document is deleted; 404 when there is none
delete_participant(p) ==
  /\ p \in DOMAIN participants
  /\ participants' = [q \in DOMAIN participants \ {p} |-> participants[q]]
  /\ UNCHANGED <<sessions, feedback_tokens, call, user, event, feedback, files, now, nextToken, lastIssued, proc>>

\* DELETE /events/{event_id}/participants: the feedback records of the event,
\* then its participants
delete_all_participants ==
  /\ feedback' = {}
  /\ participants' = << >>
  /\ UNCHANGED <<sessions, feedback_tokens, call, user, event, files, now, nextToken, lastIssued, proc>>

\* DELETE /events/{event_id}: feedback records, participants, the event
delete_event ==
  /\ feedback' = {}
  /\ participants' = << >>
  /\ event' = NoEvent
  /\ UNCHANGED <<sessions, feedback_tokens, call, user, files, now, nextToken, lastIssued, proc>>

\* an organizer with email settings and an event with a template and a
\* roster, with or without the feedback gate
InitDelete ==
  /\ user = [email_settings |-> "encrypted"]
  /\ \E fe \in BOOLEAN :
       event = [template_path |-> "template.png", feedback_enabled |-> fe,
                status |-> "draft", updated_at |-> 0]
  /\ participants = [p \in PIds |-> NewParticipant(RosterName(p), RosterEmail(p))]
  /\ feedback = {}
  /\ files = {}
  /\ now = 0
  /\ nextToken = 1
  /\ lastIssued = [p \in PIds |-> NoToken]
  /\ proc = [i \in Procs |-> IdleProc]
  /\ call = NoCall
  /\ sessions = {}
  /\ feedback_tokens = << >>

\* events.find_one: a request for a deleted event answers 404 and changes
\* nothing
Found == event # NoEvent

\* requests run one after the other
NextDelete ==
  \/ NoneInFlight /\ Found /\ \E p \in PIds : delete_participant(p)
  \/ NoneInFlight /\ Found /\ delete_all_participants
  \/ NoneInFlight /\ Found /\ delete_event
  \/ NoneInFlight /\ save_email_settings
  \/ NoneInFlight /\ delete_email_settings
  \/ NoneInFlight /\ Found /\ \E i \in Procs, sa \in BOOLEAN : SendBegin(i, EventId, sa, TRUE)
  \/ \E i \in Procs : SendNext(i)
  \/ \E i \in Procs : SendStoreFeedback(i)
  \/ \E i \in Procs : SendUpdateParticipant(i)
  \/ \E i \in Procs, o \in MailOutcomes : SendFeedbackMail(i, o)
  \/ \E i \in Procs, o \in RenderOutcomes : SendRender(i, o)
  \/ \E i \in Procs, o \in MailOutcomes : SendCertificateMail(i, o)
  \/ \E i \in Procs : SendMarkSent(i)
  \/ \E i \in Procs : SendExcept(i)
  \/ \E i \in Procs : SendFinish(i)
  \/ NoneInFlight /\ \E i \in Procs, t \in Tokens, a \in AnswerLists : SubmitBegin(i, t, a)
  \/ \E i \in Procs : SubmitSaveAnswers(i)
  \/ \E i \in Procs : SubmitMarkReceived(i)
  \/ \E i \in Procs, o \in RenderOutcomes \cup {"InvalidToken"} : SubmitRender(i, o)
  \/ \E i \in Procs, o \in MailOutcomes : SubmitCertificateMail(i, o)
  \/ \E i \in Procs : SubmitMarkSent(i)
  \/ \E i \in Procs : SubmitExcept(i)

SpecDelete == InitDelete /\ [][NextDelete]_vars

\* ------------------------------------------------------------ session flow
\* certificates.py keeps sessions and feedback tokens in process memory.  Its
\* handlers contain no await: a request runs to its response before the next
\* one starts; call holds the request and the point it has reached.
SessionId == "S1"
NoAnswers == <<None>>
\* the rows of the session's sheet, all with a name and an address
SheetIndex == 0..(NumParticipants - 1)
Responded == IF call.fn = "none" THEN TRUE ELSE call.pc = "returned"

\* POST /generate: with feedback enabled every row gets a new token and the
\* feedback mail; an exception of the mail is recorded for the row
generate_certificates(feedback_enabled, mails) ==
  /\ Responded
  /\ IF SessionId \notin sessions
       THEN /\ call' = [fn |-> "generate_certificates", pc |-> "returned",
                        response |-> "404 Session not found"]
            /\ feedback_tokens' = feedback_tokens
       ELSE /\ LET n == Cardinality(DOMAIN feedback_tokens)
                   new == IF feedback_enabled
                            THEN {n + 1 + idx : idx \in SheetIndex} ELSE {}
               IN  /\ n + Cardinality(new) <= MaxLinks
                   /\ feedback_tokens' =
                        [t \in DOMAIN feedback_tokens \cup new |->
                           IF t \in new
                             THEN [session_id |-> SessionId,
                                   participant_index |-> t - n - 1,
                                   submitted |-> FALSE, answers |-> NoAnswers]
                             ELSE feedback_tokens[t]]
            /\ call' = [fn |-> "generate_certificates", pc |-> "returned",
                        response |-> "200",
                        details |-> [idx \in SheetIndex |->
                           IF mails[idx] = "ok" THEN "success" ELSE "failed"]]
  /\ UNCHANGED <<user, event, participants, feedback, files, now,
                 nextToken, lastIssued, proc, sessions>>

LegacyRespond(token, response) ==
  call' = [fn |-> "submit_feedback", token |-> token, answers |-> << >>,
           pc |-> "returned", response |-> response]

\* POST /feedback/{token}/submit up to the certificate: the entry is marked
\* submitted and takes the answers
LegacySubmitBegin(token, answers) ==
  /\ Responded
  /\ IF token \notin DOMAIN feedback_tokens
       THEN /\ LegacyRespond(token, "404 Feedback link not found or expired")
            /\ feedback_tokens' = feedback_tokens
     ELSE IF feedback_tokens[token].submitted
       THEN /\ LegacyRespond(token, "410 Feedback already submitted")
            /\ feedback_tokens' = feedback_tokens
     ELSE IF feedback_tokens[token].session_id \notin sessions
       THEN /\ LegacyRespond(token, "404 Session expired")
            /\ feedback_tokens' = feedback_tokens
     ELSE /\ feedback_tokens' = [feedback_tokens EXCEPT
                 ![token].submitted = TRUE, ![token].answers = answers]
          /\ call' = [fn |-> "submit_feedback", token |-> token,
                      answers |-> answers, pc |-> "generate_certificate",
                      response |-> "none"]
  /\ UNCHANGED <<user, event, participants, feedback, files, now,
                 nextToken, lastIssued, proc, sessions>>

\* CertificateService.generate_certificate inside the try
LegacyGenerateCertificate(ok) ==
  /\ call.fn = "submit_feedback" /\ call.pc = "generate_certificate"
  /\ call' = [call EXCEPT !.pc = IF ok THEN "send_certificate" ELSE "except"]
  /\ UNCHANGED <<user, event, participants, feedback, files, now,
                 nextToken, lastIssued, proc, sessions, feedback_tokens>>

\* CertificateService.send_certificate inside the try, and the return
LegacySendCertificate(outcome) ==
  /\ call.fn = "submit_feedback" /\ call.pc = "send_certificate"
  /\ call' = IF outcome = "ok"
               THEN [call EXCEPT !.pc = "returned", !.response = "200"]
               ELSE [call EXCEPT !.pc = "except"]
  /\ UNCHANGED <<user, event, participants, feedback, files, now,
                 nextToken, lastIssued, proc, sessions, feedback_tokens>>

\* the handler of the exception leaving the entry submitted
LegacyExceptKeep ==
  /\ call.fn = "submit_feedback" /\ call.pc = "except"
  /\ call' = [call EXCEPT !.pc = "returned",
                          !.response = "500 Failed to send certificate"]
  /\ UNCHANGED <<user, event, participants, feedback, files, now,
                 nextToken, lastIssued, proc, sessions, feedback_tokens>>

\* except Exception: the submitted flag is reset, the answers are not
LegacyExcept ==
  /\ call.fn = "submit_feedback" /\ call.pc = "except"
  /\ feedback_tokens' = [feedback_tokens EXCEPT ![call.token].submitted = FALSE]
  /\ call' = [call EXCEPT !.pc = "returned",
                          !.response = "500 Failed to send certificate"]
  /\ UNCHANGED <<user, event, participants, feedback, files, now,
                 nextToken, lastIssued, proc, sessions>>

\* DELETE /session/{session_id}: the tokens of the session are kept
clear_session ==
  /\ Responded
  /\ SessionId \in sessions
  /\ sessions' = sessions \ {SessionId}
  /\ call' = [fn |-> "clear_session", pc |-> "returned", response |-> "200"]
  /\ UNCHANGED <<user, event, participants, feedback, files, now,
                 nextToken, lastIssued, proc, feedback_tokens>>

\* a session with a template, a sheet and the sender's credentials
InitLegacy ==
  /\ user = [email_settings |-> None]
  /\ event = [template_path |-> None,
              feedback_enabled |-> TRUE, status |-> "draft", updated_at |-> 0]
  /\ participants = << >>
  /\ feedback = {}
  /\ files = {}
  /\ now = 0
  /\ nextToken = 1
  /\ lastIssued = [p \in PIds |-> NoToken]
  /\ proc = [i \in Procs |-> IdleProc]
  /\ call = NoCall
  /\ sessions = {SessionId}
  /\ feedback_tokens = << >>

NextLegacy ==
  \/ \E fe \in BOOLEAN, mails \in [SheetIndex -> MailOutcomes] :
       generate_certificates(fe, mails)
  \/ \E t \in 1..MaxLinks, a \in AnswerLists : LegacySubmitBegin(t, a)
  \/ \E ok \in BOOLEAN : LegacyGenerateCertificate(ok)
  \/ \E o \in MailOutcomes : LegacySendCertificate(o)
  \/ LegacyExcept
  \/ clear_session

SpecLegacy == InitLegacy /\ [][NextLegacy]_vars

\* ------------------------------------------------------------ properties
Completed(i) == proc[i].op = "send" /\ proc[i].response = "200"
InRun(i) == proc[i].op = "send" /\ proc[i].pc # "returned"
DetailsOf(i, p) ==
  {k \in DOMAIN proc[i].results.details : proc[i].results.details[k].participant = p}
QueueSet(i) == {proc[i].queue[k] : k \in DOMAIN proc[i].queue}
\* the participant being processed, between the cursor step and its result entry
Current(i) == IF proc[i].pc \in {"loop", "finish", "returned"} THEN {}
              ELSE {proc[i].participant}

\* C1: a dispatch run is never stopped by an exception raised for one
\* participant: while it runs, every selected participant is either already
\* reported once, being processed, or still in the cursor; when it returns,
\* total = successful + failed = number of selected participants and there is
\* exactly one details entry per selected participant.
C1_FailureIsolation ==
  \A i \in Procs :
    /\ InRun(i) =>
         /\ \A p \in proc[i].selected :
              Cardinality(DetailsOf(i, p))
                + (IF p \in Current(i) THEN 1 ELSE 0)
                + Cardinality({k \in DOMAIN proc[i].queue : proc[i].queue[k] = p}) = 1
         /\ proc[i].results.total
              = Len(proc[i].results.details) + Cardinality(Current(i))
    /\ Completed(i) =>
         /\ proc[i].results.total = Cardinality(proc[i].selected)
         /\ proc[i].results.total = proc[i].results.successful + proc[i].results.failed
         /\ Len(proc[i].results.details) = proc[i].results.total
         /\ \A p \in proc[i].selected : Cardinality(DetailsOf(i, p)) = 1
         /\ \A k \in DOMAIN proc[i].results.details :
              proc[i].results.details[k].participant \in proc[i].selected
         /\ proc[i].results.failed = Cardinality(
              {k \in DOMAIN proc[i].results.details :
                 proc[i].results.details[k].status = "failed"})

\* a completed run whose first participant failed and whose second succeeded
C1_Witness ==
  \E i \in Procs :
    /\ Completed(i)
    /\ Len(proc[i].results.details) >= 2
    /\ proc[i].results.details[1].status = "failed"
    /\ proc[i].results.details[2].status # "failed"


FailedMessage(p) ==
  participants[p].status = "failed" /\ participants[p].error_message \notin {None, ""}

\* C2: whenever processing a participant raised, in a dispatch run or in the
\* render+send step of a redemption, the participant's stored status is
\* failed and its error_message is a non-empty text.
C2_RaisedLeavesFailedWithMessage ==
  \A i \in Procs :
    /\ proc[i].op = "send" =>
         \A k \in DOMAIN proc[i].results.details :
           proc[i].results.details[k].status = "failed"
             => FailedMessage(proc[i].results.details[k].participant)
    /\ (proc[i].op = "submit" /\ proc[i].response = "500 Failed to send certificate")
         => FailedMessage(proc[i].participant)

NotFound == "404 Feedback link not found or expired"
AlreadySubmitted == "410 Feedback already submitted"

\* a redemption request is received in slot i by this step
SubmitBegins(i) == Free(i) /\ now' = now + 1 /\ proc'[i].op = "submit"
\* a step of the redemption in slot i
SubmitStep(i) == proc'[i].op = "submit" /\ proc'[i] # proc[i]

\* C3: redeeming a token that matches no feedback record answers NotFound,
\* redeeming a token whose record has a submission timestamp answers
\* AlreadySubmitted, and in both cases no participant, feedback record or
\* file is changed; no step of a redemption changes a record that already
\* has a submission timestamp.
C3_RejectedRedemptionChangesNothing ==
  [][\A i \in Procs :
       /\ SubmitBegins(i) =>
            LET recs == {f \in feedback : f.token = proc'[i].token}
            IN /\ recs = {} => proc'[i].response = NotFound
               /\ (recs # {} /\ \A f \in recs : f.submitted_at # NoTime)
                    => proc'[i].response = AlreadySubmitted
               /\ proc'[i].response \in {NotFound, AlreadySubmitted}
                    => /\ participants' = participants
                       /\ feedback' = feedback
                       /\ files' = files
       /\ SubmitStep(i) =>
            \A f \in feedback : f.submitted_at # NoTime => f \in feedback'
    ]_vars

\* a second redemption of a token was answered AlreadySubmitted and the
\* answers of the first are still stored
C3_Witness ==
  \E i \in Procs :
    /\ proc[i].op = "submit" /\ proc[i].response = AlreadySubmitted
    /\ \E f \in feedback : /\ f.token = proc[i].token
                           /\ f.answers = <<"good">>
                           /\ f.submitted_at # NoTime
                           /\ f.submitted_at < now

\* C4: a dispatch run that read feedback_enabled = true renders no certificate
\* and sends no certificate email; a certificate email leaves a dispatch run
\* only when the toggle it read was off, and leaves a redemption only after
\* the recipient's answers and submission timestamp were stored.
C4_CertificateGatedByFeedback ==
  \A i \in Procs :
    /\ (proc[i].op = "send" /\ proc[i].feedback_enabled) =>
         /\ proc[i].rendered = {}
         /\ \A m \in proc[i].mailed : m.kind = "feedback_request"
         /\ InRun(i) => proc[i].pc \notin {"render", "certificate_mail", "mark_sent"}
    /\ proc[i].op = "submit" =>
         /\ \A m \in proc[i].mailed : m.kind = "certificate" /\ m.gated
         /\ proc[i].pc \in {"render", "certificate_mail", "mark_sent"} =>
              \E f \in feedback : /\ f.participant_id = proc[i].participant
                                  /\ f.submitted_at # NoTime
                                  /\ f.answers = proc[i].answers

\* a redemption has sent the certificate while the event's toggle is on
C4_Witness ==
  \E i \in Procs :
    /\ proc[i].op = "submit"
    /\ event.feedback_enabled
    /\ \E m \in proc[i].mailed : m.kind = "certificate" /\ m.to = proc[i].participant

FailedRedemption(i) ==
  proc[i].op = "submit" /\ proc[i].response = "500 Failed to send certificate"

\* C5: after a redemption whose render or send failed, the feedback record
\* still holds the submitted answers and a submission timestamp, the
\* participant keeps feedback_submitted_at and has status failed, and a
\* further redemption of the same token is answered AlreadySubmitted.
C5_FailedDeliveryKeepsFeedback ==
  [][\A i \in Procs :
       /\ FailedRedemption(i)' =>
            /\ \E f \in feedback' : /\ f.token = proc'[i].token
                                    /\ f.participant_id = proc'[i].participant
                                    /\ f.answers = proc'[i].answers
                                    /\ f.submitted_at # NoTime
            /\ participants'[proc'[i].participant].feedback_submitted_at # NoTime
            /\ participants'[proc'[i].participant].status = "failed"
       /\ (FailedRedemption(i) /\ SubmitBegins(i) /\ proc'[i].token = proc[i].token)
            => proc'[i].response = AlreadySubmitted
    ]_vars

\* a redemption with answers failed at render or send
C5_Witness ==
  \E i \in Procs :
    /\ FailedRedemption(i)
    /\ proc[i].answers = <<"good">>
    /\ participants[proc[i].participant].status = "failed"

\* ----------------------------------------------- feedback records and tokens
RecordsOf(col, p) == {f \in col : f.participant_id = p}
SendBegins(i) ==
  /\ Free(i) /\ now' = now + 1
  /\ proc'[i].op = "send" /\ proc'[i].pc = "loop"
SendStep(i) == InRun(i) /\ proc'[i] # proc[i]

\* C6: once a participant's feedback record carries a submission timestamp it
\* is terminal: no later step empties its answers, resets the timestamp, or
\* leaves the participant with a record that can be redeemed again
C6_SubmittedRecordIsTerminal ==
  [][\A f \in feedback :
       f.submitted_at # NoTime =>
         /\ RecordsOf(feedback', f.participant_id) # {}
         /\ \A g \in RecordsOf(feedback', f.participant_id) :
              /\ g.submitted_at = f.submitted_at
              /\ g.answers = f.answers]_vars

\* C7: issuing a token is an upsert keyed by participant: a participant never
\* has more than one feedback record, the record holds the most recently
\* issued token, a record written by a run is fresh (no answers, no
\* timestamp) and belongs to the participant being processed, and redeeming
\* any earlier-issued token answers not found
C7_IssueIsUpsertByParticipant ==
  [][/\ \A p \in PIds : Cardinality(RecordsOf(feedback', p)) <= 1
     /\ \A f \in feedback' : f.token = lastIssued'[f.participant_id]
     /\ \A i \in Procs :
          /\ SendStep(i) =>
               \A f \in feedback' \ feedback :
                 /\ f.participant_id = proc'[i].participant
                 /\ f.token = proc'[i].token
                 /\ f.token = nextToken
                 /\ f.answers = << >>
                 /\ f.submitted_at = NoTime
          /\ ( /\ SubmitBegins(i)
               /\ proc'[i].token < nextToken
               /\ \A p \in PIds : lastIssued[p] # proc'[i].token )
             => proc'[i].response = NotFound]_vars

\* a token issued by an earlier run was redeemed after a later run had
\* replaced it, and was answered not found
C7_Witness ==
  \E i \in Procs :
    /\ proc[i].op = "submit" /\ proc[i].response = NotFound
    /\ proc[i].token < nextToken
    /\ \E f \in feedback : f.token > proc[i].token /\ f.submitted_at = NoTime
    /\ \A p \in PIds : Cardinality(RecordsOf(feedback, p)) <= 1

C10_EventStatusFromFailedCount ==
  [][\A i \in Procs :
       SendStep(i) =>
         /\ event'.template_path = event.template_path
         /\ event'.feedback_enabled = event.feedback_enabled
         /\ proc'[i].response # "200" => event' = event
         /\ proc'[i].response = "200" =>
              /\ proc'[i].results = proc[i].results
              /\ event'.status =
                   IF proc'[i].results.failed = 0 THEN "completed" ELSE "sending"
              /\ event'.updated_at = now]_vars

\* a run that selected nobody completed the event, after an earlier run with
\* a failure had left it in sending
C10_Witness ==
  \E i \in Procs :
    /\ Completed(i)
    /\ proc[i].results.total = 0
    /\ event.status = "completed"
    /\ \E p \in DOMAIN participants : participants[p].status = "failed"

\* ------------------------------------------------------ configuration errors
\* a dispatch request arrives in slot i
SendRequested(i) == Free(i) /\ now' = now + 1 /\ proc'[i].op = "send"
ConfigError(i) ==
  \/ user.email_settings = None
  \/ proc'[i].event_id # EventId
  \/ event.template_path = None

\* C11: a dispatch request for an organizer without sender credentials, for an
\* unknown event or for an event without a template is answered with an error
\* at once: nobody is selected or processed, no participant, feedback record,
\* event field or file changes, no token is issued and no mail is sent
C11_ConfigErrorChangesNothing ==
  [][\A i \in Procs :
       (SendRequested(i) /\ ConfigError(i)) =>
         /\ proc'[i].pc = "returned"
         /\ proc'[i].response \in {"400 Email settings not configured",
                                   "404 Event not found",
                                   "400 No template uploaded"}
         /\ user.email_settings = None =>
              proc'[i].response = "400 Email settings not configured"
         /\ proc'[i].selected = {} /\ proc'[i].queue = << >>
         /\ proc'[i].results = NoResults
         /\ proc'[i].mailed = {} /\ proc'[i].rendered = {}
         /\ UNCHANGED <<sessions, feedback_tokens, user, event, participants, feedback, files,
                        nextToken, lastIssued>>]_vars

\* with credentials stored and pending participants on the roster, a dispatch
\* request for the event without a template was refused
C11_Witness ==
  \E i \in Procs :
    /\ proc[i].op = "send" /\ proc[i].response = "400 No template uploaded"
    /\ user.email_settings # None /\ event.template_path = None
    /\ \E p \in DOMAIN participants : participants[p].status = "pending"

\* ------------------------------------------------------------- the two flows
\* the participants run i has processed without error so far
Done(i) == Succeeded(proc[i])
HasMail(i, p, kind) == \E m \in proc[i].mailed : m.to = p /\ m.kind = kind
Paths(p) == {PngPath(participants[p].name), PdfPath(participants[p].name)}

\* C12: the feedback-gated flow without errors.  A participant a feedback-mode
\* run has processed successfully is in feedback_sent with a fresh token, has
\* been mailed the request and no certificate.  A redemption of a participant
\* in feedback_sent that raises nothing stores the answers, then puts the
\* participant in feedback_received with feedback_submitted_at set, then
\* renders and mails the certificate, and returns with the participant in
\* certificate_sent, both timestamps set and error_message null
C12_FeedbackGatedFlow ==
  \A i \in Procs :
    /\ (proc[i].op = "send" /\ proc[i].feedback_enabled) =>
         \A p \in Done(i) :
           /\ participants[p].status = "feedback_sent"
           /\ participants[p].error_message = None
           /\ participants[p].feedback_token = lastIssued[p]
           /\ \E f \in feedback :
                /\ f.participant_id = p /\ f.token = participants[p].feedback_token
                /\ f.answers = << >> /\ f.submitted_at = NoTime
           /\ HasMail(i, p, "feedback_request")
           /\ ~HasMail(i, p, "certificate") /\ p \notin proc[i].rendered
    /\ (proc[i].op = "submit" /\ proc[i].error = None
        /\ proc[i].participant \in PIds
        /\ proc[i].pre_status[proc[i].participant] = "feedback_sent") =>
         LET p == proc[i].participant
             stored == \E f \in feedback :
                         /\ f.token = proc[i].token /\ f.participant_id = p
                         /\ f.answers = proc[i].answers /\ f.submitted_at # NoTime
         IN
         /\ proc[i].pc = "save_answers" =>
              participants[p].status = "feedback_sent"
         /\ proc[i].pc = "mark_received" =>
              stored /\ participants[p].status = "feedback_sent"
         /\ proc[i].pc \in {"render", "certificate_mail", "mark_sent"} =>
              /\ stored
              /\ participants[p].status = "feedback_received"
              /\ participants[p].feedback_submitted_at # NoTime
         /\ proc[i].pc = "certificate_mail" => Paths(p) \subseteq files
         /\ proc[i].pc = "mark_sent" => HasMail(i, p, "certificate")
         /\ proc[i].response = "200" =>
              /\ stored
              /\ participants[p].status = "certificate_sent"
              /\ participants[p].feedback_submitted_at # NoTime
              /\ participants[p].certificate_sent_at # NoTime
              /\ participants[p].feedback_submitted_at <= participants[p].certificate_sent_at
              /\ participants[p].error_message = None
              /\ Paths(p) \subseteq files
              /\ HasMail(i, p, "certificate")

\* a token issued to a pending participant was redeemed without error
C12_Witness ==
  \E i \in Procs :
    /\ proc[i].op = "submit" /\ proc[i].response = "200"
    /\ proc[i].participant \in PIds
    /\ proc[i].pre_status[proc[i].participant] = "feedback_sent"
    /\ proc[i].answers # << >>
    /\ participants[proc[i].participant].status = "certificate_sent"

\* C13: the direct flow without errors.  In a run with feedback disabled the
\* participant being processed keeps the status it was selected with until the
\* certificate has been rendered and mailed; a participant the run has
\* processed successfully is in certificate_sent with certificate_sent_at set
\* and error_message null; the run issues no token, and a participant that was
\* pending keeps feedback_submitted_at null and gets no feedback record
C13_DirectFlow ==
  \A i \in Procs :
    (proc[i].op = "send" /\ ~proc[i].feedback_enabled) =>
      /\ proc[i].token = NoToken
      /\ \A m \in proc[i].mailed : m.kind = "certificate"
      /\ \A p \in Current(i) :
           /\ proc[i].pc \in {"render", "certificate_mail", "mark_sent"} =>
                /\ participants[p].status = proc[i].pre_status[p]
                /\ participants[p].certificate_sent_at # now
           /\ proc[i].pc = "certificate_mail" => Paths(p) \subseteq files
           /\ proc[i].pc = "mark_sent" =>
                Paths(p) \subseteq files /\ HasMail(i, p, "certificate")
      /\ \A p \in Done(i) :
           /\ participants[p].status = "certificate_sent"
           /\ participants[p].certificate_sent_at = now
           /\ participants[p].error_message = None
           /\ Paths(p) \subseteq files
           /\ HasMail(i, p, "certificate")
           /\ proc[i].pre_status[p] = "pending" =>
                /\ participants[p].feedback_submitted_at = NoTime
                /\ participants[p].feedback_token = NoToken
                /\ RecordsOf(feedback, p) = {}

\* a run with feedback disabled has sent the certificate to a participant
\* that was pending
C13_Witness ==
  \E i \in Procs :
    /\ Completed(i) /\ ~proc[i].feedback_enabled
    /\ \E p \in Done(i) : proc[i].pre_status[p] = "pending"

C15_ReceivedOnlyFromFeedbackSent ==
  [][\A p \in DOMAIN participants :
       (participants'[p].status = "feedback_received"
        /\ participants[p].status # "feedback_received") =>
          participants[p].status = "feedback_sent"]_vars

C17_ReceivedIsTransient ==
  [][/\ \A i \in Procs :
          (proc[i].op = "submit" /\ ~Free(i) /\ proc'[i].pc = "returned") =>
             participants'[proc[i].participant].status \in {"certificate_sent", "failed"}
     /\ \A p \in DOMAIN participants' :
          participants'[p].status = "feedback_received" =>
            \E i \in Procs :
              /\ proc'[i].op = "submit" /\ proc'[i].participant = p
              /\ proc'[i].pc \in {"render", "certificate_mail", "mark_sent", "except"}]_vars

\* a redemption has raised after it had put its participant in
\* feedback_received, and the participant is failed
C17_Witness ==
  \E i \in Procs :
    /\ proc[i].op = "submit" /\ proc[i].response = "500 Failed to send certificate"
    /\ participants[proc[i].participant].status = "failed"
    /\ participants[proc[i].participant].feedback_submitted_at = now

\* ------------------------------------------------------ overlapping requests
\* the participant request i is working on: a redemption from its lookup to
\* its last write, a dispatch run from drawing the participant from the cursor
\* to recording the result
Targets(i) ==
  CASE proc[i].op = "submit" /\ ~Free(i) -> {proc[i].participant}
    [] proc[i].op = "send" -> Current(i)
    [] OTHER -> {}
Acts(j) == proc'[j] # proc[j]
Writes(p) ==
  \/ participants'[p].status # participants[p].status
  \/ RecordsOf(feedback', p) # RecordsOf(feedback, p)

\* C18: a redemption and a dispatch run on the same participant are
\* serialized: while one of them is working on a participant the other does
\* not write that participant's status or feedback record; and no two dispatch
\* runs are working on the same participant at once
C18_SameParticipantSerialized ==
  [][\A i, j \in Procs :
       i # j =>
         /\ {proc[i].op, proc[j].op} = {"submit", "send"} =>
              \A p \in Targets(i) : ~(Acts(j) /\ ~Acts(i) /\ Writes(p))
         /\ (proc[i].op = "send" /\ proc[j].op = "send") =>
              Current(i) \cap Current(j) = {}]_vars

\* redemption i was let past the checks and has stored its answers
Stored(i) ==
  /\ proc[i].op = "submit" /\ proc[i].participant \in PIds
  /\ proc[i].pc \in {"mark_received", "render", "certificate_mail", "mark_sent",
                     "except", "returned"}

\* C19: of two redemptions of the same token at most one stores answers and
\* at most one mails a certificate
C19_TokenRedeemedOnce ==
  \A i, j \in Procs :
    (i # j /\ proc[i].op = "submit" /\ proc[j].op = "submit"
     /\ proc[i].token = proc[j].token) =>
       /\ ~(Stored(i) /\ Stored(j))
       /\ ~(\E m \in proc[i].mailed : m.kind = "certificate"
            /\ \E n \in proc[j].mailed : n.kind = "certificate")

\* --------------------------------------------------- resend after a failure
\* participant p is failed and its feedback is stored with a submission time
FailedAfterFeedback(p) ==
  /\ participants[p].status = "failed"
  /\ \E f \in RecordsOf(feedback, p) : f.submitted_at # NoTime

\* C20: when a dispatch run processes a participant that is failed with its
\* feedback already submitted, it goes to render and send the certificate, and
\* it neither issues a token, nor touches the feedback record, nor mails a
\* feedback request
C20_ResendAfterFeedbackDelivers ==
  [][\A i \in Procs :
       (InRun(i) /\ Acts(i)) =>
         /\ \A p \in DOMAIN participants :
              (proc[i].pc = "loop" /\ proc'[i].pc \notin {"loop", "finish"}
               /\ proc'[i].participant = p /\ FailedAfterFeedback(p)) =>
                 proc'[i].pc = "render"
         /\ \A p \in Current(i) :
              FailedAfterFeedback(p) =>
                /\ nextToken' = nextToken
                /\ RecordsOf(feedback', p) = RecordsOf(feedback, p)
                /\ ~ \E m \in proc'[i].mailed : m.to = p /\ m.kind = "feedback_request"]_vars

\* ------------------------------------------------------------ the compositor
Composed == call.fn = "compose" /\ call.final # NoResult
Previewed == call.fn = "compose" /\ call.preview # NoResult

\* C21: the document page generate_certificate builds has the width and
\* height of the composited raster, and the PNG is drawn on it at (0, 0) with
\* exactly that width and height
C21_DocumentMatchesRaster ==
  Composed =>
    /\ call.final.png = [width |-> call.W, height |-> call.H]
    /\ call.final.page.width = call.final.png.width
    /\ call.final.page.height = call.final.png.height
    /\ call.final.image.x = 0 /\ call.final.image.y = 0
    /\ call.final.image.width = call.final.png.width
    /\ call.final.image.height = call.final.png.height

\* a certificate was generated on a surface that is not square
C21_Witness == Composed /\ call.W # call.H /\ call.final.page.width = call.W

\* x is the floor of d / 2
IsFloorOfHalf(x, d) == 2 * x <= d /\ d < 2 * x + 2

\* C22: final generation and preview both draw the text at
\* x = floor((W - w) / 2), whether W - w is even, odd or negative
C22_CentredWithFloor ==
  /\ Composed => IsFloorOfHalf(call.final.draw.x, call.W - call.w)
  /\ Previewed => IsFloorOfHalf(call.preview.draw.x, call.W - call.w)
  /\ (Composed /\ Previewed) => call.final.draw.x = call.preview.draw.x

\* a text one pixel wider than the surface was placed by both
C22_Witness ==
  /\ Composed /\ Previewed
  /\ call.W - call.w = -1
  /\ call.final.draw.x = -1 /\ call.preview.draw.x = -1

C27_PreviewUsesExplicitX ==
  Previewed => call.preview.draw.x = call.x

\* --------------------------------------------------------------- the mailer
\* every {name} replaced by name and every {event_name} by event_name
RECURSIVE Substituted(_, _, _)
Substituted(str, name, event_name) ==
  IF str = << >> THEN << >>
  ELSE (CASE Head(str) = "{name}" -> name
          [] Head(str) = "{event_name}" -> event_name
          [] OTHER -> <<Head(str)>>) \o Substituted(Tail(str), name, event_name)

\* C23: in the subject and the body of a certificate mail every {name} is
\* replaced by the participant's name and every {event_name} by the name of
\* the event
C23_PlaceholdersSubstituted ==
  (call.fn = "send_certificate" /\ call.message # NoResult) =>
     /\ call.message.subject = Substituted(call.subject, call.name, call.event_name)
     /\ call.message.body = Substituted(call.body, call.name, call.event_name)

\* ------------------------------------------------------------ font resolver
\* the candidates of a name, in the order of the chain
Chain(font_name) ==
  (IF font_name = "Georgia" THEN SYSTEM_FONT_PATHS["Georgia"] ELSE << >>)
    \o (IF font_name = "Roboto" THEN <<FontFile["Roboto"]>> ELSE << >>)
    \o SYSTEM_FONTS
Resolved == call.fn = "get_font" /\ call.font # NoResult

\* C24: get_font never raises and returns the first candidate of the chain
\* (system paths of the name, the cached or downloaded web font, the generic
\* fallback paths) that loads, the built-in default font when none does; a
\* file that exists but does not load and a failed download are skipped
C24_FirstFontThatLoads ==
  Resolved =>
    LET chain == Chain(call.font_name)
        loads == {k \in DOMAIN chain : call.fs[chain[k]] = "good"}
    IN  /\ call.font # Raised
        /\ loads = {} => call.font = DefaultFont
        /\ loads # {} =>
             \E k \in loads : /\ \A j \in loads : k <= j
                              /\ call.font = [path |-> chain[k]]
        \* only the cache file of a web font is ever written, by a download
        /\ \A q \in FontPaths :
             call.fs[q] # call.before[q] =>
               /\ call.font_name \in GOOGLE_FONTS /\ q = FontFile[call.font_name]
               /\ call.before[q] = "absent"
               /\ call.download # "fail"
\* a corrupt system file and a failed download are skipped for a fallback font
C24_Witness ==
  /\ Resolved
  /\ \/ /\ call.font_name = "Georgia"
        /\ call.fs["/System/Library/Fonts/Georgia.ttf"] = "corrupt"
        /\ call.font = [path |-> "/Library/Fonts/Georgia.ttf"]
     \/ /\ call.font_name = "Roboto" /\ call.download = "fail"
        /\ call.before["fonts/Roboto.ttf"] = "absent"
        /\ call.font = [path |-> "C:/Windows/Fonts/times.ttf"]

\* -------------------------------------------------------------- the roster
\* the participants a step creates
Created == DOMAIN participants' \ DOMAIN participants

\* C25: after any sequence of add_participant and upload_participants no two
\* participants of the event have the same email, emails are stored
\* lower-cased, and every participant created has status pending and null
\* feedback token, timestamps and error message
C25_UniqueLowerCasedPending ==
  [][ /\ \A p, q \in DOMAIN participants' :
           p # q => participants'[p].email # participants'[q].email
      /\ \A p \in DOMAIN participants' :
           participants'[p].email = Lower(participants'[p].email)
      /\ \A p \in Created :
           /\ participants'[p].status = "pending"
           /\ participants'[p].feedback_token = NoToken
           /\ participants'[p].feedback_submitted_at = NoTime
           /\ participants'[p].certificate_sent_at = NoTime
           /\ participants'[p].error_message = None ]_vars
\* a sheet added one row and skipped another whose address was on the roster
C25_Witness ==
  /\ call.fn = "upload_participants"
  /\ call.added = 1 /\ call.skipped = 1 /\ call.total_count = 2
  /\ participants[1].email = <<"a", "@", "x">>
  /\ participants[2].email = <<"c", "@", "x">>

\* ------------------------------------------------- fields of a participant
\* C28: a participant whose status is certificate_sent has a null
\* error_message
C28_SentHasNoError ==
  \A p \in DOMAIN participants :
     participants[p].status = "certificate_sent" =>
        participants[p].error_message = None

\* C29: while no request is in flight, a participant's feedback_submitted_at
\* is non-null if and only if the participant's feedback record has a
\* non-null submission timestamp
C29_SubmittedStampsAgree ==
  NoneInFlight =>
    \A p \in DOMAIN participants :
       (participants[p].feedback_submitted_at # NoTime)
         <=> (\E f \in RecordsOf(feedback, p) : f.submitted_at # NoTime)

\* C30: a participant with status certificate_sent has a non-null
\* certificate_sent_at, and no step of a dispatch run or a redemption resets a
\* certificate_sent_at that is set
C30_SentAtIsKept ==
  [][ /\ \A p \in DOMAIN participants' :
           participants'[p].status = "certificate_sent" =>
              participants'[p].certificate_sent_at # NoTime
      /\ \A p \in DOMAIN participants :
           participants[p].certificate_sent_at # NoTime =>
              participants'[p].certificate_sent_at # NoTime ]_vars
\* a later run moved a delivered participant back to feedback_sent or failed
C30_Witness ==
  \E p \in DOMAIN participants :
     /\ participants[p].status \in {"feedback_sent", "failed"}
     /\ participants[p].certificate_sent_at # NoTime

\* ------------------------------------------------ failed feedback request
\* the token of run i is stored, unsubmitted, for the participant of run i
TokenStored(i, col) ==
  \E f \in col : /\ f.token = proc[i].token
                 /\ f.participant_id = proc[i].participant
                 /\ f.submitted_at = NoTime
                 /\ f.answers = << >>

\* C31: in the feedback branch of a dispatch run the feedback record and the
\* participant's feedback_sent status are written before the feedback mail
\* is sent; when the mail raises, the participant ends in failed and the new
\* token stays stored, unsubmitted, for a participant that exists
C31_TokenSurvivesFailedMail ==
  [][\A i \in Procs :
       (proc[i].op = "send" /\ proc[i].feedback_enabled) =>
         /\ proc[i].pc = "feedback_mail" =>
              /\ TokenStored(i, feedback)
              /\ participants[proc[i].participant].status = "feedback_sent"
              /\ participants[proc[i].participant].feedback_token = proc[i].token
         /\ (proc[i].pc = "except" /\ proc'[i].pc = "loop") =>
              /\ participants'[proc[i].participant].status = "failed"
              /\ participants'[proc[i].participant].feedback_token = proc[i].token
              /\ TokenStored(i, feedback')]_vars
\* the run has recorded the failure of the feedback mail of a participant
C31_Witness ==
  \E i \in Procs :
     /\ proc[i].op = "send" /\ proc[i].feedback_enabled /\ proc[i].pc = "loop"
     /\ proc[i].participant \in DOMAIN participants
     /\ DetailsOf(i, proc[i].participant) # {}
     /\ participants[proc[i].participant].status = "failed"
     /\ TokenStored(i, feedback)

\* --------------------------------------------------- tokens of two runs
\* C32: whenever no dispatch run is in flight, every participant that has a
\* feedback record carries the token of that record
C32_TokenMatchesRecord ==
  (\A i \in Procs : ~InRun(i)) =>
     \A p \in DOMAIN participants :
        \A f \in RecordsOf(feedback, p) : participants[p].feedback_token = f.token

\* ------------------------------------------------------------- deletions
\* C33: after any sequence of dispatch runs and deletions every stored
\* feedback record refers to a participant that still exists
C33_NoOrphanRecord ==
  \A f \in feedback : f.participant_id \in DOMAIN participants

\* ---------------------------------------------------------- event updates
\* C34: update_event leaves every field the body does not supply unchanged,
\* the feedback toggle included
C34_UnsuppliedFieldsKept ==
  (call.fn = "update_event" /\ call.updated # NoResult) =>
     \A f \in EventUpdateFields \ DOMAIN call.body :
        call.updated[f] = call.document[f]

\* ------------------------------------------------- rejected redemptions
\* the answers of redemptions that found something missing
MissingResponses ==
  {"404 Participant not found", "404 Event not found",
   "500 Event owner email not configured"}
\* the record of a token, unsubmitted and without answers
Unsubmitted(col, token) ==
  \E f \in col : f.token = token /\ f.submitted_at = NoTime /\ f.answers = << >>

Redeeming == call.fn = "submit_feedback" /\ call.pc # "returned"
Answered(response) ==
  /\ call.fn = "submit_feedback" /\ call.pc # "returned"
  /\ call'.pc = "returned" /\ call'.response = response

\* C36: in the session flow a token is marked submitted, with the answers,
\* before the certificate is rendered and sent; after a success it stays
\* submitted and later redemptions are answered 410; after a failure of the
\* render or the send the flag is reset, the answers of the failed attempt
\* stay stored, and the token is accepted again
C36_SubmittedFlagFollowsOutcome ==
  [][/\ Redeeming =>
          /\ feedback_tokens[call.token].submitted
          /\ feedback_tokens[call.token].answers = call.answers
     /\ Answered("200") =>
          /\ feedback_tokens'[call.token].submitted
          /\ feedback_tokens'[call.token].answers = call.answers
     /\ Answered("500 Failed to send certificate") =>
          /\ ~feedback_tokens'[call.token].submitted
          /\ feedback_tokens'[call.token].answers = call.answers
     /\ \A t \in DOMAIN feedback_tokens :
          /\ (feedback_tokens[t].submitted /\ ~Redeeming) =>
               /\ feedback_tokens'[t] = feedback_tokens[t]
               /\ (call'.fn = "submit_feedback" /\ call' # call /\ call'.token = t)
                     => call'.response = "410 Feedback already submitted"
          /\ ( /\ ~feedback_tokens[t].submitted /\ ~Redeeming
               /\ SessionId \in sessions
               /\ call'.fn = "submit_feedback" /\ call' # call /\ call'.token = t )
               => call'.pc = "generate_certificate"]_vars
\* a redemption failed: the token is unsubmitted again and holds its answers
C36_Witness ==
  /\ call.fn = "submit_feedback"
  /\ call.response = "500 Failed to send certificate"
  /\ ~feedback_tokens[call.token].submitted
  /\ feedback_tokens[call.token].answers = <<"good">>

\* ------------------------------------------------ default vertical position
\* C37: the default vertical position stored at template upload is half the
\* height of the surface final generation draws on, for image and document
\* templates alike
C37_DefaultIsHalfOfSurface ==
  (call.fn = "template" /\ call.surface # NoResult) =>
     call.stored.y_position = call.surface.height \div 2

====
